---- MODULE Spec2Model ----
(***************************************************************************)
(* State machine of the auto-like plugin: the PluginState singleton        *)
(* (src/src/types.ts) and the gesture handler handleLike                   *)
(* (src/unnamed/part_000).                                                 *)
(*                                                                         *)
(* JavaScript strings are sequences of one-character strings, so that      *)
(* parseInt, trim and split are computed character by character.  JSON     *)
(* values read from disk or passed by the UI are tagged records            *)
(* [k |-> kind, v |-> value].                                              *)
(***************************************************************************)
EXTENDS Integers, Sequences, FiniteSets, TLC

\* ------------------------------------------------------------------ bounds
MaxDay == 2       \* calendar days are 0 (before this run) and 1..MaxDay
MaxTimers == 3    \* interval handles the runtime hands out
MaxPending == 1   \* get_login_info calls in flight
MaxCount == 2     \* cap of the daily counters

Users == {1, 2}
\* the handleLike invocations that can be in flight together
Inv == {1, 2}
\* the executeAutoLike invocations that can be in flight together
Passes == {1, 2}

\* ------------------------------------------------- strings and parseInt
Digits == <<"0", "1", "2", "3", "4", "5", "6", "7", "8", "9">>

IsDigit(c) == \E i \in 1 .. 10 : Digits[i] = c

DigitVal(c) == (CHOOSE i \in 1 .. 10 : Digits[i] = c) - 1

NaN == [nan |-> TRUE, n |-> 0]

Num(n) == [nan |-> FALSE, n |-> n]

RECURSIVE TrimStart(_)
TrimStart(s) ==
    IF s # <<>> /\ Head(s) = " " THEN TrimStart(Tail(s)) ELSE s

RECURSIVE TrimEnd(_)
TrimEnd(s) ==
    IF s # <<>> /\ s[Len(s)] = " " THEN TrimEnd(SubSeq(s, 1, Len(s) - 1)) ELSE s

trim(s) == TrimEnd(TrimStart(s))

RECURSIVE TakeDigits(_)
TakeDigits(s) ==
    IF s = <<>> \/ ~IsDigit(Head(s)) THEN <<>>
    ELSE <<Head(s)>> \o TakeDigits(Tail(s))

RECURSIVE DigitsToNat(_)
DigitsToNat(d) ==
    IF d = <<>> THEN 0
    ELSE 10 * DigitsToNat(SubSeq(d, 1, Len(d) - 1)) + DigitVal(d[Len(d)])

\* parseInt(s, 10): leading blanks, an optional sign, then the longest run of
\* digits; NaN when there is no digit.
parseInt(s) ==
    LET t == TrimStart(s)
        signed == t # <<>> /\ Head(t) \in {"-", "+"}
        neg == t # <<>> /\ Head(t) = "-"
        d == TakeDigits(IF signed THEN Tail(t) ELSE t)
    IN IF d = <<>> THEN NaN
       ELSE Num(IF neg THEN 0 - DigitsToNat(d) ELSE DigitsToNat(d))

RECURSIVE NatToDigits(_)
NatToDigits(n) ==
    IF n < 10 THEN <<Digits[n + 1]>>
    ELSE NatToDigits(n \div 10) \o <<Digits[(n % 10) + 1]>>

\* String(n) of an integer
String(n) == IF n < 0 THEN <<"-">> \o NatToDigits(0 - n) ELSE NatToDigits(n)

RECURSIVE split(_)
\* s.split(',')
split(s) ==
    IF \A i \in 1 .. Len(s) : s[i] # "," THEN <<s>>
    ELSE LET p == CHOOSE i \in 1 .. Len(s) :
                      s[i] = "," /\ \A j \in 1 .. i - 1 : s[j] # ","
         IN <<SubSeq(s, 1, p - 1)>> \o split(SubSeq(s, p + 1, Len(s)))

RECURSIVE MapParse(_)
MapParse(parts) ==
    IF parts = <<>> THEN <<>>
    ELSE <<parseInt(trim(Head(parts)))>> \o MapParse(Tail(parts))

RECURSIVE Values(_)
Values(ps) == IF ps = <<>> THEN <<>> ELSE <<Head(ps).n>> \o Values(Tail(ps))

\* str.split(',').map(s => parseInt(s.trim(), 10)).filter(n => !isNaN(n))
ParseIdList(s) == Values(SelectSeq(MapParse(split(s)), LAMBDA p : ~p.nan))

\* ----------------------------------------------------------- JSON values
Undef == [k |-> "undef", v |-> 0]
JNull == [k |-> "null", v |-> 0]
JBool(b) == [k |-> "bool", v |-> b]
JNum(n) == [k |-> "num", v |-> n]
JStr(s) == [k |-> "str", v |-> s]
JArr(a) == [k |-> "arr", v |-> a]
JObj(f) == [k |-> "obj", v |-> f]

isObject(x) == x.k = "obj"

Field(obj, name) == IF name \in DOMAIN obj.v THEN obj.v[name] ELSE Undef

RECURSIVE NumArr(_)
NumArr(a) == IF a = <<>> THEN <<>> ELSE <<JNum(Head(a))>> \o NumArr(Tail(a))

\* arr.filter(id => typeof id === 'number')
FilterNumbers(a) == Values([i \in 1 .. Len(SelectSeq(a, LAMBDA e : e.k = "num")) |->
                               [nan |-> FALSE,
                                n |-> SelectSeq(a, LAMBDA e : e.k = "num")[i].v]])

\* ------------------------------------------------------------ configuration
\* DEFAULT_CONFIG is imported from '../config'
DEFAULT_CONFIG ==
    [enabled |-> TRUE, debug |-> FALSE, autoLikeEnabled |-> TRUE,
     blacklist |-> <<>>, vipLikeLimit |-> 2,
     autoLikeSomeoneEnabled |-> FALSE, autoLikeInterval |-> 1,
     autoLikeTimes |-> 1, autoLikeUsers |-> <<>>]

ConfigFields == DOMAIN DEFAULT_CONFIG

TypedOr(x, kind, d) == IF x.k = kind THEN x.v ELSE d

ListOr(x, d) ==
    IF x.k = "arr" THEN FilterNumbers(x.v)
    ELSE IF x.k = "str" THEN ParseIdList(x.v)
    ELSE d

\* a sanitizer that reads autoLikeInterval and autoLikeTimes from each other's field
SanitizeSwapped(raw) ==
    IF ~isObject(raw) THEN DEFAULT_CONFIG
    ELSE [enabled |-> TypedOr(Field(raw, "enabled"), "bool", DEFAULT_CONFIG.enabled),
          debug |-> TypedOr(Field(raw, "debug"), "bool", DEFAULT_CONFIG.debug),
          autoLikeEnabled |->
              TypedOr(Field(raw, "autoLikeEnabled"), "bool", DEFAULT_CONFIG.autoLikeEnabled),
          vipLikeLimit |->
              TypedOr(Field(raw, "vipLikeLimit"), "num", DEFAULT_CONFIG.vipLikeLimit),
          blacklist |-> ListOr(Field(raw, "blacklist"), DEFAULT_CONFIG.blacklist),
          autoLikeSomeoneEnabled |->
              TypedOr(Field(raw, "autoLikeSomeoneEnabled"), "bool",
                      DEFAULT_CONFIG.autoLikeSomeoneEnabled),
          autoLikeInterval |->
              TypedOr(Field(raw, "autoLikeTimes"), "num", DEFAULT_CONFIG.autoLikeInterval),
          autoLikeTimes |->
              TypedOr(Field(raw, "autoLikeInterval"), "num", DEFAULT_CONFIG.autoLikeTimes),
          autoLikeUsers |-> ListOr(Field(raw, "autoLikeUsers"), DEFAULT_CONFIG.autoLikeUsers)]

sanitizeConfig(raw) ==
    IF ~isObject(raw) THEN DEFAULT_CONFIG
    ELSE [enabled |-> TypedOr(Field(raw, "enabled"), "bool", DEFAULT_CONFIG.enabled),
          debug |-> TypedOr(Field(raw, "debug"), "bool", DEFAULT_CONFIG.debug),
          autoLikeEnabled |->
              TypedOr(Field(raw, "autoLikeEnabled"), "bool", DEFAULT_CONFIG.autoLikeEnabled),
          vipLikeLimit |->
              TypedOr(Field(raw, "vipLikeLimit"), "num", DEFAULT_CONFIG.vipLikeLimit),
          blacklist |-> ListOr(Field(raw, "blacklist"), DEFAULT_CONFIG.blacklist),
          autoLikeSomeoneEnabled |->
              TypedOr(Field(raw, "autoLikeSomeoneEnabled"), "bool",
                      DEFAULT_CONFIG.autoLikeSomeoneEnabled),
          autoLikeInterval |->
              TypedOr(Field(raw, "autoLikeInterval"), "num", DEFAULT_CONFIG.autoLikeInterval),
          autoLikeTimes |->
              TypedOr(Field(raw, "autoLikeTimes"), "num", DEFAULT_CONFIG.autoLikeTimes),
          autoLikeUsers |-> ListOr(Field(raw, "autoLikeUsers"), DEFAULT_CONFIG.autoLikeUsers)]

\* JSON.stringify({ ...this.config }) read back by JSON.parse
ConfigJson(c) ==
    JObj([enabled |-> JBool(c.enabled), debug |-> JBool(c.debug),
          autoLikeEnabled |-> JBool(c.autoLikeEnabled),
          vipLikeLimit |-> JNum(c.vipLikeLimit),
          blacklist |-> JArr(NumArr(c.blacklist)),
          autoLikeSomeoneEnabled |-> JBool(c.autoLikeSomeoneEnabled),
          autoLikeInterval |-> JNum(c.autoLikeInterval),
          autoLikeTimes |-> JNum(c.autoLikeTimes),
          autoLikeUsers |-> JArr(NumArr(c.autoLikeUsers))])

includes(seq, x) == \E i \in 1 .. Len(seq) : seq[i] = x

\* ------------------------------------------------------------------ state
VARIABLES
    ctx,                  \* _ctx is not null
    config,               \* PluginState.config
    selfId,               \* PluginState.selfId, a string
    timers,               \* PluginState.timers: job name -> interval handle
    stats,                \* PluginState.stats
    vipLikeCounts,        \* PluginState.vipLikeCounts: user -> count (partial)
    lastVipLikeResetDay,  \* PluginState.lastVipLikeResetDay
    liveTimers,           \* runtime: intervals set and not yet cleared
    nextTimer,            \* runtime: next interval handle
    today,                \* runtime: the day new Date().toDateString() names
    cfgFile,              \* disk: the configuration file
    vipFile,              \* disk: vip_likes.json, with the day it was written
    pendingSelf,          \* get_login_info calls in flight (fetchSelfId)
    h,                    \* handleLike invocations
    passes,               \* executeAutoLike invocations
    last                  \* the store operation called last and its outcome

storeVars == <<ctx, config, selfId, timers, stats, vipLikeCounts, lastVipLikeResetDay>>
envVars == <<liveTimers, nextTimer, today, cfgFile, vipFile, pendingSelf>>
vars == <<storeVars, envVars, h, passes, last>>

NoCounts == [u \in {} |-> 0]

\* this.vipLikeCounts[userId] || 0
CountOf(counts, u) == IF u \in DOMAIN counts THEN counts[u] ELSE 0

NoFile == [exists |-> FALSE, data |-> NoCounts, day |-> 0]

NoConfigFile == [exists |-> FALSE, raw |-> JNull, stats |-> Undef]


\* configuration files an earlier run or the user may have left
StoredConfigs ==
    {JObj([autoLikeEnabled |-> JBool(TRUE), blacklist |-> JStr(<<"2", ",", "x">>),
           vipLikeLimit |-> JNum(1), autoLikeSomeoneEnabled |-> JBool(TRUE),
           autoLikeUsers |-> JArr(<<JNum(1), JStr(<<"7">>), JNum(2)>>)]),
     JObj([autoLikeEnabled |-> JBool(FALSE), vipLikeLimit |-> JStr(<<"3">>)])}

\* the stats object of the configuration file: absent, or left on day 0
StoredStats ==
    {Undef, JObj([processed |-> 1, todayProcessed |-> 1, lastUpdateDay |-> 0])}

\* vip_likes.json as an earlier run left it: day 0 is a day before this run
StoredCounts ==
    {[exists |-> TRUE, data |-> (1 :> 1), day |-> d] : d \in {0, 1}}

NoCall == [op |-> "none", user |-> 0, ret |-> 0, threw |-> FALSE]

NoEvent == [notice_type |-> "none", sub_type |-> "none", user_id |-> 0,
            target_id |-> 0, group_id |-> 0]

NoReply == [kind |-> "none"]

\* an invocation of handleLike: its position, its event, what it read when it
\* started, the calls it made through callApi and the replies it got; seen and
\* lim are the user's count for the day and the limit when get_stranger_info
\* answered, incs the increments it applied, day the day its poke was answered
NewInvocation ==
    [pc |-> "new", ev |-> NoEvent,
     snap |-> [selfId |-> <<>>, enabled |-> FALSE, blacklist |-> <<>>],
     calls |-> <<>>, friends |-> NoReply, stranger |-> NoReply, poke |-> NoReply,
     seen |-> 0, lim |-> 0, incs |-> 0, day |-> 0]

\* an invocation of executeAutoLike: its position, who started it, the array
\* and the times it read when it started, the index of the target it is at,
\* the send_like calls it made, the outcome of each answered call, and for
\* every call after the first whether the 1-second delay ran out before it
NoPass ==
    [pc |-> "idle", origin |-> "none", list |-> <<>>, times |-> 0, k |-> 0,
     calls |-> <<>>, outcomes |-> <<>>, delayed |-> <<>>]

\* the state after `new PluginState()` on day 1
Constructed ==
    /\ ctx = FALSE
    /\ config = DEFAULT_CONFIG
    /\ selfId = <<>>
    /\ timers = [j \in {} |-> 0]
    /\ stats = [processed |-> 0, todayProcessed |-> 0, lastUpdateDay |-> 1]
    /\ vipLikeCounts = NoCounts
    /\ lastVipLikeResetDay = 1
    /\ liveTimers = {}
    /\ nextTimer = 1
    /\ today = 1
    /\ pendingSelf = 0
    /\ h = [i \in Inv |-> NewInvocation]
    /\ passes = [p \in Passes |-> NoPass]
    /\ last = NoCall

StoredConfigFiles ==
    {NoConfigFile} \cup
    {[exists |-> TRUE, raw |-> r, stats |-> s] : r \in StoredConfigs, s \in StoredStats}

Init ==
    /\ Constructed
    /\ cfgFile \in StoredConfigFiles
    /\ vipFile = NoFile

InitCounters ==
    /\ Constructed
    /\ cfgFile \in {f \in StoredConfigFiles :
                       f.exists => f.stats # Undef /\ ~sanitizeConfig(f.raw).autoLikeSomeoneEnabled}
    /\ vipFile \in {NoFile} \cup StoredCounts

Called(op, u, ret, threw) == [op |-> op, user |-> u, ret |-> ret, threw |-> threw]

\* ------------------------------------------------------------- persistence
\* saveConfig: returns at once without a context, else writes config and stats
saveConfig(hasCtx, c, s, file) ==
    IF ~hasCtx THEN file
    ELSE [exists |-> TRUE, raw |-> ConfigJson(c), stats |-> JObj(s)]

\* loadConfig: the configuration, the stats and the file it leaves
loadConfig ==
    IF cfgFile.exists
    THEN [config |-> sanitizeConfig(cfgFile.raw),
          stats |-> IF isObject(cfgFile.stats) THEN cfgFile.stats.v ELSE stats,
          file |-> cfgFile]
    ELSE [config |-> DEFAULT_CONFIG, stats |-> stats,
          file |-> saveConfig(TRUE, DEFAULT_CONFIG, stats, cfgFile)]

\* loadDataFile('vip_likes.json', {})
loadDataFile == IF vipFile.exists THEN vipFile.data ELSE NoCounts

\* saveDataFile('vip_likes.json', data): getDataFilePath reads this.ctx outside
\* the try block, so without a context the call throws and writes nothing
saveDataFile(hasCtx, data, file) ==
    [file |-> IF hasCtx THEN [exists |-> TRUE, data |-> data, day |-> today] ELSE file,
     threw |-> ~hasCtx]

\* ------------------------------------------------------------------ timers
Remove(tm, job) == [j \in DOMAIN tm \ {job} |-> tm[j]]

Put(tm, job, t) == [j \in DOMAIN tm \cup {job} |-> IF j = job THEN t ELSE tm[j]]

clearInterval(live, t) == {x \in live : x.id # t}

\* stopAutoLikeTimer: this.logger throws after the delete when there is no context
stopAutoLikeTimer(hasCtx, tm, live) ==
    IF "autoLike" \in DOMAIN tm
    THEN [timers |-> Remove(tm, "autoLike"),
          live |-> clearInterval(live, tm["autoLike"]),
          threw |-> ~hasCtx]
    ELSE [timers |-> tm, live |-> live, threw |-> FALSE]

\* a start that forgets to stop the job it replaces
StartWithoutStop(hasCtx, c, tm, live, nxt) ==
    IF ~c.autoLikeSomeoneEnabled \/ Len(c.autoLikeUsers) = 0
    THEN [timers |-> tm, live |-> live, next |-> nxt, threw |-> FALSE]
    ELSE [timers |-> Put(tm, "autoLike", nxt),
          live |-> live \cup {[id |-> nxt, interval |-> c.autoLikeInterval * 60 * 1000]},
          next |-> nxt + 1, threw |-> ~hasCtx]

\* startAutoLikeTimer: stop, then register an interval if the feature is on
startAutoLikeTimer(hasCtx, c, tm, live, nxt) ==
    LET s == stopAutoLikeTimer(hasCtx, tm, live)
    IN IF s.threw
       THEN [timers |-> s.timers, live |-> s.live, next |-> nxt, threw |-> TRUE]
       ELSE IF ~c.autoLikeSomeoneEnabled \/ Len(c.autoLikeUsers) = 0
       THEN [timers |-> s.timers, live |-> s.live, next |-> nxt, threw |-> FALSE]
       ELSE [timers |-> Put(s.timers, "autoLike", nxt),
             live |-> s.live \cup
                      {[id |-> nxt, interval |-> c.autoLikeInterval * 60 * 1000]},
             next |-> nxt + 1, threw |-> ~hasCtx]

\* ----------------------------------------------------------- VIP counters
\* checkVipLikeReset
checkVipLikeReset(hasCtx, counts, marker, file) ==
    IF marker # today
    THEN LET w == saveDataFile(hasCtx, NoCounts, file)
         IN [counts |-> NoCounts, marker |-> today, file |-> w.file, threw |-> w.threw]
    ELSE [counts |-> counts, marker |-> marker, file |-> file, threw |-> FALSE]

\* getVipLikeCount(userId)
getVipLikeCount(hasCtx, counts, marker, file, u) ==
    LET r == checkVipLikeReset(hasCtx, counts, marker, file)
    IN [counts |-> r.counts, marker |-> r.marker, file |-> r.file, threw |-> r.threw,
        ret |-> IF r.threw THEN 0 ELSE CountOf(r.counts, u)]

\* an increment that skips the rollover check
IncrementWithoutReset(hasCtx, counts, marker, file, u) ==
    LET c == Put(counts, u, CountOf(counts, u) + 1)
        w == saveDataFile(hasCtx, c, file)
    IN [counts |-> c, marker |-> marker, file |-> w.file, threw |-> w.threw]

\* incrementVipLikeCount(userId)
incrementVipLikeCount(hasCtx, counts, marker, file, u) ==
    LET r == checkVipLikeReset(hasCtx, counts, marker, file)
    IN IF r.threw THEN r
       ELSE LET c == Put(r.counts, u, CountOf(r.counts, u) + 1)
                w == saveDataFile(hasCtx, c, r.file)
            IN [counts |-> c, marker |-> r.marker, file |-> w.file, threw |-> w.threw]

\* incrementProcessed
incrementProcessed(s) ==
    LET r == IF s.lastUpdateDay # today
             THEN [s EXCEPT !.todayProcessed = 0, !.lastUpdateDay = today]
             ELSE s
    IN [r EXCEPT !.todayProcessed = @ + 1, !.processed = @ + 1]

\* --------------------------------------------------------- store operations
\* init(ctx)
CallInit ==
    /\ pendingSelf < MaxPending
    /\ nextTimer <= MaxTimers
    /\ LET lc == loadConfig
           r == checkVipLikeReset(TRUE, loadDataFile, lastVipLikeResetDay, vipFile)
           t == startAutoLikeTimer(TRUE, lc.config, timers, liveTimers, nextTimer)
       IN /\ ctx' = TRUE
          /\ config' = lc.config
          /\ stats' = lc.stats
          /\ cfgFile' = lc.file
          /\ pendingSelf' = pendingSelf + 1
          /\ vipLikeCounts' = r.counts
          /\ lastVipLikeResetDay' = r.marker
          /\ vipFile' = r.file
          /\ timers' = t.timers
          /\ liveTimers' = t.live
          /\ nextTimer' = t.next
    /\ last' = Called("init", 0, 0, FALSE)
    /\ UNCHANGED <<selfId, today, h, passes>>

\* replies of get_login_info: a rejection, no user_id, or a user_id
LoginReplies == {[ok |-> FALSE, user_id |-> Undef], [ok |-> TRUE, user_id |-> Undef],
                 [ok |-> TRUE, user_id |-> JNum(0)], [ok |-> TRUE, user_id |-> JNum(9)]}

truthy(x) == (x.k = "num" /\ x.v # 0) \/ (x.k = "str" /\ x.v # <<>>)

\* fetchSelfId, from the reply on
FetchSelfIdReturn(reply) ==
    /\ pendingSelf > 0
    /\ pendingSelf' = pendingSelf - 1
    /\ selfId' = IF reply.ok /\ truthy(reply.user_id)
                 THEN (IF reply.user_id.k = "num" THEN String(reply.user_id.v)
                       ELSE reply.user_id.v)
                 ELSE selfId
    /\ last' = NoCall
    /\ UNCHANGED <<ctx, config, timers, stats, vipLikeCounts, lastVipLikeResetDay,
                   liveTimers, nextTimer, today, cfgFile, vipFile, h, passes>>

\* cleanup(): this.logger throws after the first clearInterval when there is
\* no context; with no timer and no context saveDataFile throws
CallCleanup ==
    /\ IF ~ctx
       THEN /\ liveTimers' = IF "autoLike" \in DOMAIN timers
                             THEN clearInterval(liveTimers, timers["autoLike"])
                             ELSE liveTimers
            /\ UNCHANGED <<ctx, timers, cfgFile, vipFile>>
            /\ last' = Called("cleanup", 0, 0, TRUE)
       ELSE /\ liveTimers' = {x \in liveTimers :
                                 \A j \in DOMAIN timers : timers[j] # x.id}
            /\ timers' = [j \in {} |-> 0]
            /\ cfgFile' = saveConfig(TRUE, config, stats, cfgFile)
            /\ vipFile' = saveDataFile(TRUE, vipLikeCounts, vipFile).file
            /\ ctx' = FALSE
            /\ last' = Called("cleanup", 0, 0, FALSE)
    /\ UNCHANGED <<config, selfId, stats, vipLikeCounts, lastVipLikeResetDay,
                   nextTimer, today, pendingSelf, h, passes>>

\* partial updates the UI sends: list fields as arrays or as comma-separated text
Partials ==
    {[autoLikeInterval |-> 2],
     [autoLikeSomeoneEnabled |-> TRUE, autoLikeUsers |-> JStr(<<"1", ",", " ", "x", ",", "2">>)],
     [autoLikeSomeoneEnabled |-> FALSE],
     [autoLikeUsers |-> JArr(<<>>)]}

\* the string-form list fields of updateConfig's argument, normalised
normalize(partial) ==
    [f \in DOMAIN partial |->
        IF f \in {"blacklist", "autoLikeUsers"}
        THEN (IF partial[f].k = "str" THEN ParseIdList(partial[f].v)
              ELSE Values([i \in 1 .. Len(partial[f].v) |->
                              [nan |-> FALSE, n |-> partial[f].v[i].v]]))
        ELSE partial[f]]

\* a merge that falls back to the defaults for the fields partial leaves out
MergeOverDefaults(c, partial) ==
    [f \in ConfigFields |-> IF f \in DOMAIN partial THEN partial[f] ELSE DEFAULT_CONFIG[f]]

\* { ...this.config, ...partial }
merge(c, partial) ==
    [f \in ConfigFields |-> IF f \in DOMAIN partial THEN partial[f] ELSE c[f]]

\* an update that merges and saves and leaves the schedule as it was
UpdateWithoutRestart(partial) ==
    /\ nextTimer <= MaxTimers
    /\ config' = merge(config, normalize(partial))
    /\ cfgFile' = saveConfig(ctx, merge(config, normalize(partial)), stats, cfgFile)
    /\ last' = Called("updateConfig", 0, 0, FALSE)
    /\ UNCHANGED <<ctx, selfId, timers, stats, vipLikeCounts, lastVipLikeResetDay,
                   liveTimers, nextTimer, today, vipFile, pendingSelf, h, passes>>

\* updateConfig(partial)
CallUpdateConfig(partial) ==
    /\ nextTimer <= MaxTimers
    /\ LET c == merge(config, normalize(partial))
           t == startAutoLikeTimer(ctx, c, timers, liveTimers, nextTimer)
       IN /\ config' = c
          /\ cfgFile' = saveConfig(ctx, c, stats, cfgFile)
          /\ timers' = t.timers
          /\ liveTimers' = t.live
          /\ nextTimer' = t.next
          /\ last' = Called("updateConfig", 0, 0, t.threw)
    /\ UNCHANGED <<ctx, selfId, stats, vipLikeCounts, lastVipLikeResetDay,
                   today, vipFile, pendingSelf, h, passes>>

\* replaceConfig(config)
CallReplaceConfig(raw) ==
    /\ config' = sanitizeConfig(raw)
    /\ cfgFile' = saveConfig(ctx, sanitizeConfig(raw), stats, cfgFile)
    /\ last' = Called("replaceConfig", 0, 0, FALSE)
    /\ UNCHANGED <<ctx, selfId, timers, stats, vipLikeCounts, lastVipLikeResetDay,
                   liveTimers, nextTimer, today, vipFile, pendingSelf, h, passes>>

\* startAutoLikeTimer() and restartAutoLikeTimer(), called by the host
CallStartAutoLikeTimer(op) ==
    /\ nextTimer <= MaxTimers
    /\ LET t == startAutoLikeTimer(ctx, config, timers, liveTimers, nextTimer)
       IN /\ timers' = t.timers
          /\ liveTimers' = t.live
          /\ nextTimer' = t.next
          /\ last' = Called(op, 0, 0, t.threw)
    /\ UNCHANGED <<ctx, config, selfId, stats, vipLikeCounts, lastVipLikeResetDay,
                   today, cfgFile, vipFile, pendingSelf, h, passes>>

\* stopAutoLikeTimer(), called by the host
CallStopAutoLikeTimer ==
    /\ LET t == stopAutoLikeTimer(ctx, timers, liveTimers)
       IN /\ timers' = t.timers
          /\ liveTimers' = t.live
          /\ last' = Called("stopAutoLikeTimer", 0, 0, t.threw)
    /\ UNCHANGED <<ctx, config, selfId, stats, vipLikeCounts, lastVipLikeResetDay,
                   nextTimer, today, cfgFile, vipFile, pendingSelf, h, passes>>

\* getVipLikeCount(u), called by the host
CallGetVipLikeCount(u) ==
    /\ LET r == getVipLikeCount(ctx, vipLikeCounts, lastVipLikeResetDay, vipFile, u)
       IN /\ vipLikeCounts' = r.counts
          /\ lastVipLikeResetDay' = r.marker
          /\ vipFile' = r.file
          /\ last' = Called("getVipLikeCount", u, r.ret, r.threw)
    /\ UNCHANGED <<ctx, config, selfId, timers, stats, liveTimers, nextTimer,
                   today, cfgFile, pendingSelf, h, passes>>

\* incrementVipLikeCount(u), called by the host
CallIncrementVipLikeCount(u) ==
    /\ CountOf(vipLikeCounts, u) < MaxCount
    /\ LET r == incrementVipLikeCount(ctx, vipLikeCounts, lastVipLikeResetDay, vipFile, u)
       IN /\ vipLikeCounts' = r.counts
          /\ lastVipLikeResetDay' = r.marker
          /\ vipFile' = r.file
          /\ last' = Called("incrementVipLikeCount", u, 0, r.threw)
    /\ UNCHANGED <<ctx, config, selfId, timers, stats, liveTimers, nextTimer,
                   today, cfgFile, pendingSelf, h, passes>>

\* incrementProcessed(), called by the host
CallIncrementProcessed ==
    /\ stats.processed < MaxCount
    /\ stats' = incrementProcessed(stats)
    /\ last' = Called("incrementProcessed", 0, 0, FALSE)
    /\ UNCHANGED <<ctx, config, selfId, timers, vipLikeCounts, lastVipLikeResetDay,
                   liveTimers, nextTimer, today, cfgFile, vipFile, pendingSelf, h, passes>>

\* midnight: new Date().toDateString() names the next day
AdvanceDay ==
    /\ today < MaxDay
    /\ today' = today + 1
    /\ last' = NoCall
    /\ UNCHANGED <<storeVars, liveTimers, nextTimer, cfgFile, vipFile, pendingSelf, h, passes>>

\* ----------------------------------------------------------------- handleLike
\* gesture notifications the host dispatches; group_id 0 is an absent group_id
Events ==
    {[notice_type |-> "thumb_up", sub_type |-> "none", user_id |-> u,
      target_id |-> t, group_id |-> g] : u \in Users, t \in {8, 9}, g \in {0, 5}}
    \cup
    {[notice_type |-> "notify", sub_type |-> "poke", user_id |-> u,
      target_id |-> t, group_id |-> g] : u \in Users, t \in {8, 9}, g \in {0, 5}}
    \cup
    {[notice_type |-> "notify", sub_type |-> "other", user_id |-> u,
      target_id |-> 9, group_id |-> 0] : u \in Users}

FriendReplies ==
    {[kind |-> "error", data |-> {}], [kind |-> "nodata", data |-> {}]} \cup
    {[kind |-> "list", data |-> d] : d \in {{}, {1}, {1, 2}}}

StrangerReplies ==
    {[kind |-> "error", vip |-> FALSE], [kind |-> "nodata", vip |-> FALSE]} \cup
    {[kind |-> "info", vip |-> v] : v \in BOOLEAN}

PokeReplies == {[kind |-> "ok"], [kind |-> "error"]}

isLikeOrPoke(ev) ==
    ev.notice_type = "thumb_up" \/ (ev.notice_type = "notify" /\ ev.sub_type = "poke")

\* a target check that lets every gesture through while the identifier is unknown
TargetIsSelfOrUnknown(ev, sid) == parseInt(sid).nan \/ ev.target_id = parseInt(sid).n

\* event.target_id !== parseInt(pluginState.selfId) is false
targetIsSelf(ev, sid) == ~parseInt(sid).nan /\ ev.target_id = parseInt(sid).n

\* gates that forget the blacklist
GatesWithoutBlacklist(ev, sid, c) ==
    isLikeOrPoke(ev) /\ targetIsSelf(ev, sid) /\ c.autoLikeEnabled

\* the gates handleLike passes before its first remote call
passesLocalGates(ev, sid, c) ==
    /\ isLikeOrPoke(ev)
    /\ targetIsSelf(ev, sid)
    /\ c.autoLikeEnabled
    /\ ~includes(c.blacklist, ev.user_id)

\* a friendship check that takes any answered list for a confirmation
AnyListIsFriend(reply, u) == reply.kind = "list"

\* friendList.data.some(friend => friend.user_id === user_id), FALSE when the
\* call rejects or the reply has no data (both end in the catch block)
isFriend(reply, u) == reply.kind = "list" /\ u \in reply.data

\* a limit check that lets the user through once more
OverLimit(currentLikes, limit) == currentLikes > limit

\* currentLikes >= pluginState.config.vipLikeLimit
atLimit(currentLikes, limit) == currentLikes >= limit

ApiCall(action, u, g) == [action |-> action, user_id |-> u, group_id |-> g]

\* a poke back that goes to the group whenever the event names one
PokeGroupFirst(ev) ==
    IF ev.group_id # 0 THEN ApiCall("group_poke", ev.user_id, ev.group_id)
    ELSE ApiCall("friend_poke", ev.user_id, 0)

\* the call step 5 makes
pokeBack(ev) ==
    IF ev.notice_type = "thumb_up" THEN ApiCall("friend_poke", ev.user_id, 0)
    ELSE IF ev.sub_type = "poke"
    THEN (IF ev.group_id # 0 THEN ApiCall("group_poke", ev.user_id, ev.group_id)
          ELSE ApiCall("friend_poke", ev.user_id, 0))
    ELSE ApiCall("none", ev.user_id, 0)

\* handleLike up to its first await
HandleLike(i, ev) ==
    /\ h[i].pc = "new"
    /\ LET r == [h[i] EXCEPT !.ev = ev,
                             !.snap = [selfId |-> selfId,
                                       enabled |-> config.autoLikeEnabled,
                                       blacklist |-> config.blacklist]]
       IN h' = [h EXCEPT ![i] =
                   IF passesLocalGates(ev, selfId, config) /\ ctx
                   THEN [r EXCEPT !.pc = "get_friend_list",
                                  !.calls = <<ApiCall("get_friend_list", 0, 0)>>]
                   ELSE [r EXCEPT !.pc = "done"]]
    /\ last' = NoCall
    /\ UNCHANGED <<storeVars, envVars, passes>>

\* from the reply of get_friend_list to the call of get_stranger_info
FriendListReturn(i, reply) ==
    /\ h[i].pc = "get_friend_list"
    /\ LET r == [h[i] EXCEPT !.friends = reply]
           u == h[i].ev.user_id
       IN h' = [h EXCEPT ![i] =
                   IF ~isFriend(reply, u) THEN [r EXCEPT !.pc = "done"]
                   ELSE IF ctx
                   THEN [r EXCEPT !.pc = "get_stranger_info",
                                  !.calls = @ \o <<ApiCall("get_stranger_info", u, 0)>>]
                   ELSE [r EXCEPT !.pc = "done"]]
    /\ last' = NoCall
    /\ UNCHANGED <<storeVars, envVars, passes>>
\* the user's count for the current day: what a read of the counter yields
TodayCount(u) == IF lastVipLikeResetDay # today THEN 0 ELSE CountOf(vipLikeCounts, u)

\* a VIP check that treats a failed lookup as a reason to stop
StopsUnlessConfirmed(reply, threw, currentLikes, limit) ==
    reply.kind # "info" \/ (reply.vip /\ ~threw /\ atLimit(currentLikes, limit))

\* step 4 returns: the reply marks the user VIP (userInfo.data.vip), the counter
\* was read and is at the limit; a rejected call, a reply without data and a
\* throwing read all end in the catch block, which returns nothing
vipCheckStops(reply, threw, currentLikes, limit) ==
    reply.kind = "info" /\ reply.vip /\ ~threw /\ atLimit(currentLikes, limit)

\* from the reply of get_stranger_info to the poke call.  getVipLikeCount runs
\* only for a VIP reply
StrangerInfoReturn(i, reply) ==
    /\ h[i].pc = "get_stranger_info"
    /\ pokeBack(h[i].ev).action # "none"
    /\ LET u == h[i].ev.user_id
           isVip == reply.kind = "info" /\ reply.vip
           g == getVipLikeCount(ctx, vipLikeCounts, lastVipLikeResetDay, vipFile, u)
           stop == vipCheckStops(reply, g.threw, g.ret, config.vipLikeLimit)
           r == [h[i] EXCEPT !.stranger = reply, !.seen = TodayCount(u),
                             !.lim = config.vipLikeLimit]
       IN /\ vipLikeCounts' = IF isVip THEN g.counts ELSE vipLikeCounts
          /\ lastVipLikeResetDay' = IF isVip THEN g.marker ELSE lastVipLikeResetDay
          /\ vipFile' = IF isVip THEN g.file ELSE vipFile
          /\ h' = [h EXCEPT ![i] =
                      IF stop \/ ~ctx THEN [r EXCEPT !.pc = "done"]
                      ELSE [r EXCEPT !.pc = "poke", !.calls = @ \o <<pokeBack(h[i].ev)>>]]
    /\ last' = NoCall
    /\ UNCHANGED <<ctx, config, selfId, timers, stats, liveTimers, nextTimer,
                   today, cfgFile, pendingSelf, passes>>

\* a handler that counts the poke whether or not it was delivered
CountEvenIfFailed(reply, hasCtx, counts, marker, file, u) ==
    incrementVipLikeCount(hasCtx, counts, marker, file, u)

\* step 6: incrementVipLikeCount runs when the poke call resolved; a rejected
\* call jumps to the catch block
afterPoke(reply, hasCtx, counts, marker, file, u) ==
    IF reply.kind = "ok" THEN incrementVipLikeCount(hasCtx, counts, marker, file, u)
    ELSE [counts |-> counts, marker |-> marker, file |-> file, threw |-> TRUE]

\* from the reply of friend_poke or group_poke to the end
PokeReturn(i, reply) ==
    /\ h[i].pc = "poke"
    /\ LET u == h[i].ev.user_id
           n == afterPoke(reply, ctx, vipLikeCounts, lastVipLikeResetDay, vipFile, u)
       IN /\ CountOf(n.counts, u) <= MaxCount
          /\ vipLikeCounts' = n.counts
          /\ lastVipLikeResetDay' = n.marker
          /\ vipFile' = n.file
          /\ h' = [h EXCEPT ![i] =
                      [@ EXCEPT !.pc = "done", !.poke = reply, !.day = today,
                                !.incs = IF n.marker = today
                                         THEN CountOf(n.counts, u) - TodayCount(u)
                                         ELSE 0]]
    /\ last' = NoCall
    /\ UNCHANGED <<ctx, config, selfId, timers, stats, liveTimers, nextTimer,
                   today, cfgFile, pendingSelf, passes>>

\* ------------------------------------------------------------ executeAutoLike
\* outcomes of a send_like call: a reply, a rejection whose message contains
\* 'No data returned', any other rejection
SendReplies == {[kind |-> "ok"], [kind |-> "nodata"], [kind |-> "error"]}

\* callApi('send_like', { user_id: String(userId), times })
SendLike(userId, times) ==
    [action |-> "send_like", user_id |-> String(userId), times |-> times]

\* a pass that counts only the calls that were answered
CreditsAnsweredOnly(kind) == kind = "ok"

\* the outcomes after which incrementProcessed runs: the try block ran
\* through, or the catch block found 'No data returned' in the message
credits(kind) == kind \in {"ok", "nodata"}

\* the for loop moving on from target r.k, after the delay (slept) or straight
\* from the catch block: the pass returns after the last target, else calls
\* send_like for the next one; without a context callApi throws into the catch
\* block, whose this.logger.error throws out of the pass
nextTarget(r, hasCtx, slept) ==
    IF r.k = Len(r.list) THEN [r EXCEPT !.pc = "done"]
    ELSE IF hasCtx
    THEN [r EXCEPT !.pc = "send_like", !.k = @ + 1,
                   !.calls = Append(@, SendLike(r.list[r.k + 1], r.times)),
                   !.delayed = IF r.k = 0 THEN @ ELSE Append(@, slept)]
    ELSE [r EXCEPT !.pc = "aborted", !.k = @ + 1]

\* executeAutoLike up to its first await, run as invocation p
executeAutoLike(p, origin) ==
    IF ~config.autoLikeSomeoneEnabled \/ Len(config.autoLikeUsers) = 0
    THEN passes
    ELSE [passes EXCEPT ![p] =
             nextTarget([NoPass EXCEPT !.origin = origin,
                                       !.list = config.autoLikeUsers,
                                       !.times = config.autoLikeTimes], ctx, FALSE)]

\* invocation p is the next one the model has room for
FreePass(p) ==
    /\ passes[p].pc = "idle"
    /\ \A q \in Passes : q < p => passes[q].pc # "idle"

\* the callback of a live interval: () => { this.executeAutoLike(); }
TimerTick(p, t) ==
    /\ t \in liveTimers
    /\ FreePass(p)
    /\ passes' = executeAutoLike(p, "tick")
    /\ last' = NoCall
    /\ UNCHANGED <<storeVars, envVars, h>>

\* executeAutoLikeNow(): the promise rejects at once when the first callApi
\* finds no context
CallExecuteAutoLikeNow(p) ==
    /\ FreePass(p)
    /\ passes' = executeAutoLike(p, "now")
    /\ last' = Called("executeAutoLikeNow", 0, 0, executeAutoLike(p, "now")[p].pc = "aborted")
    /\ UNCHANGED <<storeVars, envVars, h>>

\* from the outcome of a send_like call to the delay or to the next call:
\* without a context this.logger throws, in the try block before
\* incrementProcessed and then again in the catch block
SendLikeReturn(p, reply) ==
    /\ passes[p].pc = "send_like"
    /\ LET r == [passes[p] EXCEPT !.outcomes = Append(@, reply.kind)]
       IN IF ~ctx
          THEN /\ passes' = [passes EXCEPT ![p] = [r EXCEPT !.pc = "aborted"]]
               /\ stats' = stats
          ELSE /\ stats' = IF credits(reply.kind) THEN incrementProcessed(stats) ELSE stats
               /\ passes' = [passes EXCEPT ![p] =
                                IF reply.kind = "ok" THEN [r EXCEPT !.pc = "delay"]
                                ELSE nextTarget(r, TRUE, FALSE)]
    /\ last' = NoCall
    /\ UNCHANGED <<ctx, config, selfId, timers, vipLikeCounts, lastVipLikeResetDay,
                   envVars, h>>

\* the 1-second timeout of the try block fires
DelayElapsed(p) ==
    /\ passes[p].pc = "delay"
    /\ passes' = [passes EXCEPT ![p] = nextTarget(passes[p], ctx, TRUE)]
    /\ last' = NoCall
    /\ UNCHANGED <<storeVars, envVars, h>>

\* ------------------------------------------------------------ specifications
\* the store driven by its host: lifecycle, configuration and schedule
Next ==
    \/ CallInit
    \/ \E reply \in LoginReplies : FetchSelfIdReturn(reply)
    \/ CallCleanup
    \/ \E partial \in Partials : CallUpdateConfig(partial)
    \/ \E raw \in StoredConfigs \cup {JNull} : CallReplaceConfig(raw)
    \/ \E op \in {"startAutoLikeTimer", "restartAutoLikeTimer"} : CallStartAutoLikeTimer(op)
    \/ CallStopAutoLikeTimer

Spec == Init /\ [][Next]_vars

\* the host loads the plugin when it is not loaded
Startup == ~ctx /\ CallInit

\* the store driven by its host: loading, unloading and the daily counters
\* (the bot's identifier plays no part: get_login_info is rejected)
NextCounters ==
    \/ Startup
    \/ \E reply \in {r \in LoginReplies : ~r.ok} : FetchSelfIdReturn(reply)
    \/ CallCleanup
    \/ \E u \in Users : CallGetVipLikeCount(u)
    \/ \E u \in Users : CallIncrementVipLikeCount(u)
    \/ CallIncrementProcessed
    \/ AdvanceDay

SpecCounters == InitCounters /\ [][NextCounters]_vars

\* gestures handled concurrently while the plugin is loaded and days pass
InitLike ==
    /\ Constructed
    /\ cfgFile \in {f \in StoredConfigFiles : f.stats = Undef}
    /\ vipFile \in {NoFile} \cup StoredCounts

NextLike ==
    \/ Startup
    \/ \E reply \in LoginReplies : FetchSelfIdReturn(reply)
    \/ \E i \in Inv, ev \in Events : HandleLike(i, ev)
    \/ \E i \in Inv, reply \in FriendReplies : FriendListReturn(i, reply)
    \/ \E i \in Inv, reply \in StrangerReplies : StrangerInfoReturn(i, reply)
    \/ \E i \in Inv, reply \in PokeReplies : PokeReturn(i, reply)
    \/ AdvanceDay

SpecLike == InitLike /\ [][NextLike]_vars

\* configuration files that switch the schedule on
PassConfigs ==
    {JObj([autoLikeSomeoneEnabled |-> JBool(TRUE), autoLikeTimes |-> JNum(5),
           autoLikeUsers |-> JArr(<<JNum(2), JNum(1)>>)]),
     JObj([autoLikeSomeoneEnabled |-> JBool(TRUE),
           autoLikeUsers |-> JStr(<<"1">>)])}

InitPass ==
    /\ Constructed
    /\ cfgFile \in {[exists |-> TRUE, raw |-> r, stats |-> Undef] : r \in PassConfigs}
    /\ vipFile = NoFile

\* the schedule at work on a loaded plugin: ticks, passes and days
NextPass ==
    \/ Startup
    \/ \E p \in Passes : \E t \in liveTimers : TimerTick(p, t)
    \/ \E p \in Passes : CallExecuteAutoLikeNow(p)
    \/ \E p \in Passes : \E reply \in SendReplies : SendLikeReturn(p, reply)
    \/ \E p \in Passes : DelayElapsed(p)
    \/ AdvanceDay

SpecPass == InitPass /\ [][NextPass]_vars

\* passes under the host's control of the schedule and of the plugin
NextControl ==
    \/ Startup
    \/ \E p \in Passes : \E t \in liveTimers : TimerTick(p, t)
    \/ \E p \in Passes : \E reply \in SendReplies : SendLikeReturn(p, reply)
    \/ \E p \in Passes : DelayElapsed(p)
    \/ CallStopAutoLikeTimer
    \/ CallStartAutoLikeTimer("restartAutoLikeTimer")
    \/ \E partial \in {x \in Partials : "autoLikeUsers" \in DOMAIN x} :
           CallUpdateConfig(partial)
    \/ CallCleanup

SpecControl == InitPass /\ [][NextControl]_vars

\* ------------------------------------------------------------------- claims
\* C1: at most one 'autoLike' interval is live, and a live interval is the one
\* the timers map records under 'autoLike' (so a start has cancelled the job
\* it replaces)
C1_AtMostOneAutoLikeTimer ==
    /\ Cardinality(liveTimers) <= 1
    /\ \A t \in liveTimers : "autoLike" \in DOMAIN timers /\ timers["autoLike"] = t.id

\* updateConfig changed the interval of a running job: the second handle is the
\* only live one
C1_JobReplaced ==
    /\ last.op = "updateConfig"
    /\ nextTimer > 2
    /\ liveTimers = {[id |-> nextTimer - 1, interval |-> 2 * 60 * 1000]}

Started(i) == h[i].pc # "new"

User(i) == h[i].ev.user_id

Pokes(i) == SelectSeq(h[i].calls, LAMBDA c : c.action \in {"friend_poke", "group_poke"})

ReportedVip(i) == h[i].stranger.kind = "info" /\ h[i].stranger.vip

\* C2: on no day does the number of delivered pokes to a user, sent by
\* invocations that get_stranger_info told the user is VIP, exceed vipLikeLimit
C2_VipPokesWithinLimit ==
    \A u \in Users, d \in 1 .. MaxDay :
        Cardinality({i \in Inv : /\ User(i) = u
                                 /\ ReportedVip(i)
                                 /\ h[i].poke.kind = "ok"
                                 /\ h[i].day = d}) <= config.vipLikeLimit

\* C3: a VIP user whose count for the day is at or above the limit gets no poke
\* and no increment; one whose count is limit - 1 gets the poke call
C3_VipLimitGate ==
    \A i \in Inv :
        ReportedVip(i) =>
            /\ h[i].seen >= h[i].lim =>
                   h[i].pc = "done" /\ Pokes(i) = <<>> /\ h[i].incs = 0
            /\ h[i].seen = h[i].lim - 1 => Len(Pokes(i)) = 1

\* one VIP gesture was answered at limit - 1, the next one stopped at the limit
C3_StoppedAtLimit ==
    \E i, j \in Inv :
        /\ ReportedVip(i) /\ h[i].seen = h[i].lim - 1 /\ h[i].poke.kind = "ok"
        /\ ReportedVip(j) /\ h[j].seen = h[j].lim /\ h[j].pc = "done" /\ User(j) = User(i)

FailsLocalGate(i) ==
    \/ ~targetIsSelf(h[i].ev, h[i].snap.selfId)
    \/ ~h[i].snap.enabled
    \/ includes(h[i].snap.blacklist, User(i))

\* C4: a gesture with another target, with the feature off or from a
\* blacklisted user makes no remote call and updates no counter
C4_LocalGatesStopSilently ==
    \A i \in Inv :
        Started(i) /\ FailsLocalGate(i) =>
            /\ h[i].pc = "done"
            /\ h[i].calls = <<>>
            /\ h[i].friends.kind = "none" /\ h[i].stranger.kind = "none"
            /\ h[i].incs = 0

\* a blacklisted user's gesture aimed at the bot and one aimed elsewhere both ended
C4_BlacklistedAndMistargeted ==
    \E i, j \in Inv :
        /\ h[i].pc = "done" /\ isLikeOrPoke(h[i].ev)
        /\ targetIsSelf(h[i].ev, h[i].snap.selfId) /\ h[i].snap.enabled
        /\ includes(h[i].snap.blacklist, User(i))
        /\ h[j].pc = "done" /\ isLikeOrPoke(h[j].ev)
        /\ h[j].snap.selfId # <<>> /\ ~targetIsSelf(h[j].ev, h[j].snap.selfId)

Confirmed(i) == h[i].friends.kind = "list" /\ User(i) \in h[i].friends.data

\* C5: get_stranger_info, a poke and an increment happen only after
\* get_friend_list answered with a list that holds the user; otherwise the
\* invocation ends with that one call
C5_NoReciprocationWithoutFriendship ==
    \A i \in Inv :
        /\ (Len(h[i].calls) > 1 \/ h[i].incs > 0 \/ h[i].stranger.kind # "none") =>
               h[i].calls[1].action = "get_friend_list" /\ Confirmed(i)
        /\ (h[i].friends.kind # "none" /\ ~Confirmed(i)) =>
               h[i].pc = "done" /\ Len(h[i].calls) = 1 /\ h[i].incs = 0

\* one gesture ended at a rejected get_friend_list, one at a list without the user
C5_FriendshipUnconfirmed ==
    \E i, j \in Inv :
        /\ h[i].friends.kind = "error" /\ h[i].pc = "done"
        /\ h[j].friends.kind = "list" /\ User(j) \notin h[j].friends.data
        /\ h[j].pc = "done"

\* C6: after a failed get_stranger_info the poke call is made, and when it
\* succeeds the user's counter is incremented
C6_StrangerFailureProceeds ==
    \A i \in Inv :
        h[i].stranger.kind \in {"error", "nodata"} =>
            /\ Len(h[i].calls) = 3 /\ h[i].calls[3] = pokeBack(h[i].ev)
            /\ h[i].calls[3].action \in {"friend_poke", "group_poke"}
            /\ h[i].poke.kind = "ok" => h[i].incs = 1

\* the lookup was rejected while the count was already at the limit, and the
\* poke went out and was counted
C6_ProceededAtLimit ==
    \E i \in Inv :
        /\ h[i].stranger.kind = "error"
        /\ h[i].seen >= h[i].lim
        /\ h[i].poke.kind = "ok" /\ h[i].incs = 1

PassedAllGates(i) ==
    /\ Started(i) /\ isLikeOrPoke(h[i].ev) /\ ~FailsLocalGate(i)
    /\ Confirmed(i)
    /\ h[i].stranger.kind # "none"
    /\ ~(ReportedVip(i) /\ h[i].seen >= h[i].lim)

\* the poke the specification asks for
PokeOwed(ev) ==
    IF ev.notice_type = "notify" /\ ev.sub_type = "poke" /\ ev.group_id # 0
    THEN [action |-> "group_poke", user_id |-> ev.user_id, group_id |-> ev.group_id]
    ELSE [action |-> "friend_poke", user_id |-> ev.user_id, group_id |-> 0]

\* C7: an invocation makes at most one poke call, a gesture that passed every
\* gate makes exactly one, and it is group_poke with the event's group for a
\* poke that carries a group_id and friend_poke otherwise
C7_ExactlyOnePoke ==
    \A i \in Inv :
        /\ Len(Pokes(i)) <= 1
        /\ PassedAllGates(i) => Pokes(i) = <<PokeOwed(h[i].ev)>>
        /\ Pokes(i) # <<>> => PassedAllGates(i)

\* a thumb-up that names a group was answered in private while a poke from a
\* group was answered in that group
C7_PrivateAndGroupPoke ==
    \E i, j \in Inv :
        /\ h[i].ev.notice_type = "thumb_up" /\ h[i].ev.group_id # 0
        /\ Pokes(i) = <<ApiCall("friend_poke", User(i), 0)>>
        /\ h[j].ev.notice_type = "notify" /\ h[j].ev.group_id # 0
        /\ Pokes(j) = <<ApiCall("group_poke", User(j), h[j].ev.group_id)>>

TodayCountNext(u) ==
    IF lastVipLikeResetDay' # today' THEN 0 ELSE CountOf(vipLikeCounts', u)

\* C8: a step of handleLike raises the acting user's count for the day by one
\* when it is the step that receives a successful poke reply, and no step of
\* handleLike changes any user's count for the day otherwise
C8_CounterFollowsPoke ==
    [][\A i \in Inv :
          h'[i] # h[i] =>
              IF h[i].pc = "poke" /\ h'[i].poke.kind = "ok"
              THEN /\ TodayCountNext(User(i)) = TodayCount(User(i)) + 1
                   /\ \A v \in Users \ {User(i)} : TodayCountNext(v) = TodayCount(v)
              ELSE \A v \in Users : TodayCountNext(v) = TodayCount(v)]_vars

\* a user reported as not VIP was poked and counted, and a gesture whose poke
\* was rejected left the counter alone
C8_CountedAndNotCounted ==
    \E i, j \in Inv :
        /\ h[i].stranger.kind = "info" /\ ~h[i].stranger.vip
        /\ h[i].poke.kind = "ok" /\ h[i].incs = 1
        /\ h[j].poke.kind = "error" /\ h[j].incs = 0

\* C9: a counter access that returns applies the rollover first when the day
\* has changed (the read yields 0, the increment leaves 1 and clears the other
\* users, incrementProcessed leaves todayProcessed at 1 and keeps processed),
\* sets the marker to the current day, and resets nothing on an unchanged day
C9_RolloverOnAccess ==
    [][LET u == last'.user
           returned(op) == last'.op = op /\ ~last'.threw
       IN /\ returned("getVipLikeCount") =>
                 IF lastVipLikeResetDay # today
                 THEN /\ last'.ret = 0
                      /\ \A v \in Users : CountOf(vipLikeCounts', v) = 0
                      /\ lastVipLikeResetDay' = today
                 ELSE /\ last'.ret = CountOf(vipLikeCounts, u)
                      /\ vipLikeCounts' = vipLikeCounts
                      /\ lastVipLikeResetDay' = today
          /\ returned("incrementVipLikeCount") =>
                 IF lastVipLikeResetDay # today
                 THEN /\ CountOf(vipLikeCounts', u) = 1
                      /\ \A v \in Users \ {u} : CountOf(vipLikeCounts', v) = 0
                      /\ lastVipLikeResetDay' = today
                 ELSE /\ CountOf(vipLikeCounts', u) = CountOf(vipLikeCounts, u) + 1
                      /\ \A v \in Users \ {u} :
                             CountOf(vipLikeCounts', v) = CountOf(vipLikeCounts, v)
                      /\ lastVipLikeResetDay' = today
          /\ returned("incrementProcessed") =>
                 /\ stats'.processed = stats.processed + 1
                 /\ stats'.lastUpdateDay = today
                 /\ stats'.todayProcessed =
                        IF stats.lastUpdateDay # today THEN 1
                        ELSE stats.todayProcessed + 1]_vars

\* after a day change an increment has left its user at 1 and no other count,
\* in memory and on disk, and the lifetime count kept growing
C9_RolledOver ==
    /\ last.op = "incrementVipLikeCount" /\ ~last.threw
    /\ today > 1 /\ lastVipLikeResetDay = today
    /\ vipLikeCounts = (2 :> 1)
    /\ vipFile.data = (2 :> 1)
    /\ stats.lastUpdateDay = today /\ stats.todayProcessed = 1 /\ stats.processed > 1

\* C10: after init, counters loaded from a file written on an earlier day read 0
C10_InitAppliesRollover ==
    (last.op = "init" /\ vipFile.exists /\ vipFile.day < today) =>
        \A u \in Users : CountOf(vipLikeCounts, u) = 0

\* the outcomes of invocation p that the statistics count
CountedBy(p) ==
    Len(SelectSeq(passes[p].outcomes, LAMBDA o : o \in {"ok", "nodata"}))

Counted == CountedBy(1) + CountedBy(2)

\* stats.todayProcessed as a read on this day finds it
ProcessedToday == IF stats.lastUpdateDay = today THEN stats.todayProcessed ELSE 0

\* the i-th call of a pass is send_like for the i-th target of the list it
\* read, the identifier written out in decimal digits, with the times it read
IsSendLikeFor(c, userId, times) ==
    /\ c.action = "send_like"
    /\ c.user_id # <<>> /\ \A j \in 1 .. Len(c.user_id) : IsDigit(c.user_id[j])
    /\ parseInt(c.user_id) = Num(userId)
    /\ c.times = times

\* C11: a pass over a list of n targets calls send_like once per target, in
\* list order, with the identifier as text and times = autoLikeTimes, whatever
\* the outcomes, n calls in all when it returns; processed and todayProcessed
\* grow by one for each call that succeeded or failed with 'No data returned'
\* and by nothing for any other failure
C11_PassCallsAndCounts ==
    [][/\ \A p \in Passes :
              /\ Len(passes'[p].calls) <= Len(passes'[p].list)
              /\ \A i \in 1 .. Len(passes'[p].calls) :
                     IsSendLikeFor(passes'[p].calls[i], passes'[p].list[i],
                                   passes'[p].times)
              /\ passes'[p].pc # "aborted"
              /\ passes'[p].pc = "done" =>
                     /\ Len(passes'[p].calls) = Len(passes'[p].list)
                     /\ Len(passes'[p].outcomes) = Len(passes'[p].list)
       /\ stats'.processed = stats.processed + (Counted' - Counted)
       /\ today' = today => ProcessedToday' = ProcessedToday + (Counted' - Counted)]_vars

\* a pass over [2, 1] with times 5 returned after a failure of the first call
\* and a 'No data returned' failure of the second, and one call was counted
C11_FailedThenNoData ==
    \E p \in Passes :
        /\ passes[p].pc = "done"
        /\ passes[p].list = <<2, 1>> /\ passes[p].times = 5
        /\ passes[p].outcomes = <<"error", "nodata">>
        /\ Len(passes[p].calls) = 2
        /\ stats.processed = 1

\* C16: a pass that has called send_like calls it for every target of its
\* list before it ends, whatever the host does to the schedule or to the
\* plugin while the pass waits for a reply or for the delay
C16_PassRunsToCompletion ==
    \A p \in Passes :
        (passes[p].calls # <<>> /\ passes[p].pc \in {"done", "aborted"}) =>
            Len(passes[p].calls) = Len(passes[p].list)

\* C17: the 1-second delay ran out before every send_like call of a pass
\* after its first
C17_DelayBetweenCalls ==
    \A p \in Passes : \A i \in 1 .. Len(passes[p].delayed) : passes[p].delayed[i]

\* C18: at most one pass is between its first call and its return, so at
\* most one send_like call waits for its reply
C18_AtMostOnePassInFlight ==
    /\ Cardinality({p \in Passes : passes[p].pc \in {"send_like", "delay"}}) <= 1
    /\ Cardinality({p \in Passes : passes[p].pc = "send_like"}) <= 1

\* names of the operations that need a context, as `last` records them
ContextOps ==
    {"updateConfig", "getVipLikeCount", "incrementVipLikeCount", "loadDataFile",
     "saveDataFile", "startAutoLikeTimer", "executeAutoLikeNow", "callApi"}

\* C12: an operation invoked while the store has no context (before init or
\* after cleanup) fails with the uninitialized error
C12_UninitializedOpsFail == (~ctx /\ last.op \in ContextOps) => last.threw

AfterCleanup == last.op = "cleanup" /\ ~last.threw

\* C13: cleanup leaves an empty timers map, no live interval, both files equal
\* to the in-memory values and no context, and from then on no interval is
\* live (so no tick starts a pass) until init is called again
C13_CleanupCancelsUntilInit ==
    [][/\ AfterCleanup' =>
            /\ DOMAIN timers' = {}
            /\ liveTimers' = {}
            /\ cfgFile' = [exists |-> TRUE, raw |-> ConfigJson(config'),
                           stats |-> JObj(stats')]
            /\ vipFile'.exists /\ vipFile'.data = vipLikeCounts'
            /\ ~ctx'
       /\ (AfterCleanup /\ last'.op # "init") => liveTimers' = {}]_vars

\* the schedule the configuration c asks for is the one registered
Scheduled(c, tm, live) ==
    /\ ("autoLike" \in DOMAIN tm) <=> (c.autoLikeSomeoneEnabled /\ Len(c.autoLikeUsers) > 0)
    /\ \A t \in live : /\ "autoLike" \in DOMAIN tm
                       /\ t.id = tm["autoLike"]
                       /\ t.interval = c.autoLikeInterval * 60 * 1000
    /\ "autoLike" \in DOMAIN tm => \E t \in live : t.id = tm["autoLike"]

\* C14: updateConfig(partial) on an initialized store returns with the fields
\* partial does not name unchanged, with an 'autoLike' job registered exactly
\* when the merged configuration enables the schedule and names a target, at
\* the merged interval, and with every job that ran before the call cancelled
C14_UpdateConfigRestartsSchedule ==
    [][\A partial \in Partials :
          (ctx /\ CallUpdateConfig(partial)) =>
              /\ ~last'.threw
              /\ \A f \in ConfigFields \ DOMAIN partial : config'[f] = config[f]
              /\ Scheduled(config', timers', liveTimers')
              /\ liveTimers \cap liveTimers' = {}]_vars

\* a running job was replaced by one at the new interval, the blacklist read
\* from the file still in place
C14_IntervalChanged ==
    /\ ctx /\ last.op = "updateConfig" /\ ~last.threw
    /\ config.autoLikeInterval = 2 /\ config.blacklist = <<2>>
    /\ \E t \in liveTimers : t.id > 1 /\ t.interval = 2 * 60 * 1000

\* a registered job is one the configuration c asks for, at c's interval
RegisteredOnlyIfConfigured(c, tm, live) ==
    "autoLike" \in DOMAIN tm =>
        /\ c.autoLikeSomeoneEnabled /\ Len(c.autoLikeUsers) > 0
        /\ \A t \in live : t.interval = c.autoLikeInterval * 60 * 1000

\* C19 as stated: in every state of an initialized store a registered
\* 'autoLike' job is asked for by the current configuration and runs at its
\* interval
C19_JobMatchesConfig == ctx => RegisteredOnlyIfConfigured(config, timers, liveTimers)

ScheduleOps ==
    {"init", "updateConfig", "startAutoLikeTimer", "restartAutoLikeTimer",
     "stopAutoLikeTimer"}

\* C19: after init, updateConfig, startAutoLikeTimer, stopAutoLikeTimer and
\* restartAutoLikeTimer on an initialized store a registered 'autoLike' job is
\* asked for by the current configuration and runs at its interval, while
\* replaceConfig changes the configuration and leaves the schedule as it was
C19_JobMatchesConfigAfterScheduleOps ==
    [][/\ (ctx' /\ last'.op \in ScheduleOps) =>
              RegisteredOnlyIfConfigured(config', timers', liveTimers')
       /\ last'.op = "replaceConfig" => (timers' = timers /\ liveTimers' = liveTimers)]_vars

\* replaceConfig switched the schedule off in the configuration while the job
\* registered before it is still live
C19_ReplacedUnderRunningJob ==
    /\ ctx /\ last.op = "replaceConfig"
    /\ ~config.autoLikeSomeoneEnabled
    /\ "autoLike" \in DOMAIN timers /\ liveTimers # {}

\* C20: a gesture handled while the cached identifier is empty ends with no
\* remote call and no counter update, whatever its target, and a gesture that
\* was reciprocated was handled with a resolved identifier naming its target
C20_IgnoredUntilIdentified ==
    \A i \in Inv :
        Started(i) =>
            /\ h[i].snap.selfId = <<>> =>
                  /\ h[i].pc = "done"
                  /\ h[i].calls = <<>>
                  /\ h[i].friends.kind = "none" /\ h[i].stranger.kind = "none"
                  /\ h[i].incs = 0
            /\ h[i].calls # <<>> =>
                  /\ h[i].snap.selfId # <<>>
                  /\ String(h[i].ev.target_id) = h[i].snap.selfId

\* on an initialized store a gesture aimed at the bot was ignored while the
\* identifier was empty, and the same gesture was reciprocated once resolved
C20_IgnoredThenReciprocated ==
    \E i, j \in Inv :
        /\ ctx
        /\ h[i].pc = "done" /\ h[i].snap.selfId = <<>> /\ h[i].calls = <<>>
        /\ isLikeOrPoke(h[i].ev) /\ h[i].ev.target_id = 9 /\ h[i].snap.enabled
        /\ ~includes(h[i].snap.blacklist, User(i))
        /\ h[j].ev = h[i].ev /\ h[j].snap.selfId = String(9) /\ Pokes(j) # <<>>

\* ------------------------------------------------- sanitizeConfig on raw input
\* values a field of a raw configuration may hold: the right type, a wrong
\* type, a list as an array with members that are no numbers, a list as
\* comma-separated text with tokens that do not parse
RawValues ==
    {JBool(TRUE), JBool(FALSE), JNum(3), JNull,
     JStr(<<"3">>), JStr(<<"1", ",", " ", "x", ",", "2", " ">>),
     JArr(<<>>), JArr(<<JNum(1), JStr(<<"7">>), JNull, JNum(2)>>)}

\* raw configurations: values that are no object, objects with one or two of
\* the fields and the others missing, with an unknown field, and whole files
RawConfigs ==
    {JNull, JNum(1), JStr(<<"x">>), JArr(<<JNum(1)>>), JObj([f \in {} |-> JNull])}
    \cup {JObj([g \in {f} |-> v]) : f \in ConfigFields \cup {"theme"}, v \in RawValues}
    \cup {JObj([g \in {"autoLikeInterval", "autoLikeUsers"} |->
                   IF g = "autoLikeInterval" THEN v ELSE w]) : v, w \in RawValues}
    \cup StoredConfigs

InitSanitize ==
    /\ Constructed
    /\ cfgFile \in {[exists |-> TRUE, raw |-> r, stats |-> Undef] : r \in RawConfigs}
    /\ vipFile = NoFile

\* replaceConfig handed the configuration the store holds
Resanitize == CallReplaceConfig(ConfigJson(config))

NextSanitize ==
    \/ Startup
    \/ \E raw \in RawConfigs : CallReplaceConfig(raw)
    \/ Resanitize

SpecSanitize == InitSanitize /\ [][NextSanitize]_vars

IsIdList(l) == \A i \in 1 .. Len(l) : l[i] \in Int

\* every field of c has the type PluginConfig declares
WellTyped(c) ==
    /\ DOMAIN c = ConfigFields
    /\ c.enabled \in BOOLEAN /\ c.debug \in BOOLEAN /\ c.autoLikeEnabled \in BOOLEAN
    /\ c.autoLikeSomeoneEnabled \in BOOLEAN
    /\ c.vipLikeLimit \in Int /\ c.autoLikeInterval \in Int /\ c.autoLikeTimes \in Int
    /\ IsIdList(c.blacklist) /\ IsIdList(c.autoLikeUsers)

\* C15: what sanitizeConfig returns for a raw configuration has every field
\* at its declared type, the list fields as integer sequences, and
\* sanitizing it again returns it unchanged
C15_SanitizeIdempotent ==
    [][/\ last'.op \in {"init", "replaceConfig"} =>
              /\ WellTyped(config')
              /\ sanitizeConfig(ConfigJson(config')) = config'
       /\ Resanitize => config' = config]_vars

\* a file with a list given as an array with members that are no numbers and
\* an interval given as text was loaded: the list kept its numbers and the
\* interval its default
C15_SanitizedWrongTypes ==
    /\ ctx /\ last.op = "init"
    /\ Field(cfgFile.raw, "autoLikeUsers") = JArr(<<JNum(1), JStr(<<"7">>), JNull, JNum(2)>>)
    /\ Field(cfgFile.raw, "autoLikeInterval") = JStr(<<"3">>)
    /\ config.autoLikeUsers = <<1, 2>>
    /\ config.autoLikeInterval = DEFAULT_CONFIG.autoLikeInterval
====
